---- MODULE Spec2Model ----
(***************************************************************************)
(* A model of rusty_bird (src/src/main.rs): the per-frame update driver    *)
(* State::update with its three systems (AnimationSystem, MovementSystem,  *)
(* CollisionSystem), the deferred entity commit (World::maintain) and the  *)
(* two key handlers.                                                       *)
(*                                                                         *)
(* Numbers.  Every f32 of the program is held as an integer number of      *)
(* tenths: 0.3 is 3, 460.0 is 4600, -10.0 is -100.  All literals of the    *)
(* program are multiples of 0.1, so every sum the program forms is exact   *)
(* in tenths; the binary rounding of f32 (0.3 is not representable) is not *)
(* modelled.                                                               *)
(*                                                                         *)
(* Registry.  The component storages of the specs World are functions from *)
(* entity ids to component values; a join is an intersection of domains,   *)
(* iterated in increasing id order as specs does.                          *)
(***************************************************************************)
EXTENDS Integers, FiniteSets, Sequences, TLC

VARIABLES
    game,           \* the Game resource: [playing, score]
    player_input,   \* State.player_input: [jump, release]
    dir,            \* the Direction resource of the World: [jump, release]
    entities,       \* the set of live entity ids
    pos,            \* storage of Position
    anim,           \* storage of Animation
    bg,             \* storage of BackgroundTag
    obs,            \* storage of ObstacleTag
    coll,           \* storage of CollisionBox
    image,          \* storage of Image (the asset's name)
    next_id,        \* the next id the allocator hands out
    events          \* number of key events delivered so far (bounds the model)

vars == <<game, player_input, dir, entities, pos, anim, bg, obs, coll, image,
          next_id, events>>

----------------------------------------------------------------------------
(* Bounds of the model *)

\* ticks executed while playing
MaxTicks == 262
\* key events delivered in one round
MaxEvents == 3
\* while the round is on, key events are delivered in ticks InputFrom..InputUntil
InputFrom == 150
InputUntil == 185
\* animation passes the fixed-rate loop runs in one frame
MaxAnimSteps == 1

----------------------------------------------------------------------------
(* Program constants, in tenths *)

GRAVITY == 3
JUMP_LIMIT == 100
JUMP_IMPULSE == 100
TERMINAL_SPEED == 60
MAX_Y == 4600
SPAWN_X == 10240
RETIRED_Y == 6000
OBSTACLE_VELOCITY == 40
OBSTACLE_WIDTH == 640
OBSTACLE_HEIGHT == 2400
BIRD_HEIGHT == 720
BIRD_WIDTH == 580
PLAYER_FRAMES == 4

KeyCodes == {"Space", "Escape", "Other"}

Images == <<"bottom_pipe_big", "bottom_pipe_mid", "bottom_pipe_small", "top_pipe">>

Point2(px, py) == [x |-> px, y |-> py]

Min(S) == CHOOSE m \in S : \A n \in S : m <= n

Restrict(f, S) == [e \in S |-> f[e]]

----------------------------------------------------------------------------
(* Construction *)

\* Game::new
NewGame == [playing |-> TRUE, score |-> 0]

\* Direction::new
NewDirection == [jump |-> FALSE, release |-> TRUE]

\* Animation::new
NewAnimation(max) == [current_frame |-> 0, max |-> max]

\* main: the entities in creation order; ids are handed out from 0.
\* 0..5 background (levels 1 and 2, three copies each), 6..10 floor,
\* 11..13 bottom obstacles, 14..16 top obstacles, 17 the bird.
BgIds == 0 .. 5
FloorIds == 6 .. 10
BottomIds == 11 .. 13
TopIds == 14 .. 16
BirdId == 17

BgLevel(e) == (e \div 3) + 1
BgCopy(e) == e % 3

InitPos ==
    [e \in 0 .. BirdId |->
        IF e \in BgIds THEN
            [position |-> Point2(7600 * BgCopy(e), 0), speed |-> Point2(0, 0)]
        ELSE IF e \in FloorIds THEN
            [position |-> Point2(3200 * (e - 6), 5200), speed |-> Point2(0, 0)]
        ELSE IF e \in BottomIds THEN
            [position |-> Point2(3400 * (e - 11) + 9000, 3600),
             speed |-> Point2(0, 0)]
        ELSE IF e \in TopIds THEN
            [position |-> Point2(3400 * (e - 14) + 9000, -1200),
             speed |-> Point2(0, 0)]
        ELSE
            [position |-> Point2(1000, 2000), speed |-> Point2(0, 0)]]

InitBg ==
    [e \in 0 .. 16 |->
        IF e \in BgIds THEN
            [velocity |-> 10 + 10 * BgLevel(e), width |-> 7600, num_copies |-> 3]
        ELSE IF e \in FloorIds THEN
            [velocity |-> 40, width |-> 3200, num_copies |-> 5]
        ELSE
            [velocity |-> OBSTACLE_VELOCITY, width |-> OBSTACLE_WIDTH,
             num_copies |-> 1]]

InitObs == [e \in 11 .. 16 |-> [top |-> e \in TopIds]]

InitColl ==
    [e \in 11 .. BirdId |->
        IF e = BirdId THEN
            [origin |-> Point2(1000, 2000), height |-> BIRD_HEIGHT,
             width |-> BIRD_WIDTH]
        ELSE
            [origin |-> InitPos[e].position, height |-> OBSTACLE_HEIGHT,
             width |-> OBSTACLE_WIDTH]]

InitImage ==
    [e \in 0 .. 16 |->
        IF e \in BgIds THEN (IF BgLevel(e) = 1 THEN "background1" ELSE "background2")
        ELSE IF e \in FloorIds THEN "floor"
        ELSE IF e \in BottomIds THEN Images[2]
        ELSE Images[4]]

Init ==
    /\ game = NewGame
    /\ player_input = NewDirection
    /\ dir = NewDirection
    /\ entities = 0 .. BirdId
    /\ pos = InitPos
    /\ anim = [e \in {BirdId} |-> NewAnimation(PLAYER_FRAMES)]
    /\ bg = InitBg
    /\ obs = InitObs
    /\ coll = InitColl
    /\ image = InitImage
    /\ next_id = BirdId + 1
    /\ events = 0

----------------------------------------------------------------------------
(* The World as one value, for the systems to transform.  deleted and lazy *)
(* are the allocator's kill set and the LazyUpdate queue: both are empty   *)
(* between ticks, World::maintain drains them.                             *)

World ==
    [dir |-> dir, entities |-> entities, pos |-> pos, anim |-> anim, bg |-> bg,
     obs |-> obs, coll |-> coll, image |-> image, next_id |-> next_id,
     deleted |-> {}, lazy |-> <<>>]

----------------------------------------------------------------------------
(* MovementSystem::run *)

\* a speed update that keeps adding gravity at the terminal speed
VerticalSpeedNoCap(sy, d) ==
    IF d.jump /\ d.release THEN
        IF sy > -JUMP_LIMIT THEN sy - JUMP_IMPULSE ELSE sy
    ELSE sy + GRAVITY

\* a speed update whose jump branch adds gravity as well
VerticalSpeedJumpGravity(sy, d) ==
    IF d.jump /\ d.release THEN
        IF sy > -JUMP_LIMIT THEN sy - JUMP_IMPULSE + GRAVITY ELSE sy + GRAVITY
    ELSE IF sy < TERMINAL_SPEED THEN sy + GRAVITY
    ELSE sy

\* a speed update without gravity: the player hovers unless it jumps
VerticalSpeedNoGravity(sy, d) ==
    IF d.jump /\ d.release THEN
        IF sy > -JUMP_LIMIT THEN sy - JUMP_IMPULSE ELSE sy
    ELSE sy

\* lines 141-148: the jump branch, else gravity below the terminal speed
VerticalSpeed(sy, d) ==
    IF d.jump /\ d.release THEN
        IF sy > -JUMP_LIMIT THEN sy - JUMP_IMPULSE ELSE sy
    ELSE IF sy < TERMINAL_SPEED THEN sy + GRAVITY
    ELSE sy

\* a clamp that stops the player at the lower bound only
ClampFloorOnly(y, sy) ==
    IF y > MAX_Y THEN [y |-> MAX_Y, sy |-> 0] ELSE [y |-> y, sy |-> sy]

\* lines 152-158: the clamp of position.y, on the integrated position
Clamp(y, sy) ==
    IF y < 0 THEN [y |-> 0, sy |-> 0]
    ELSE IF y > MAX_Y THEN [y |-> MAX_Y, sy |-> 0]
    ELSE [y |-> y, sy |-> sy]

\* lines 141-158: the body of the first loop, for one Position
VerticalStep(p, d) ==
    LET sy == VerticalSpeed(p.speed.y, d)
        c == Clamp(p.position.y + sy, sy)
    IN  [position |-> Point2(p.position.x, c.y), speed |-> Point2(p.speed.x, c.sy)]

\* line 145: the request is cleared by the entity that took the jump branch
ClearJump(d) ==
    IF d.jump /\ d.release THEN [d EXCEPT !.jump = FALSE] ELSE d

\* lines 140-159: the loop over (pos, anim), in id order; w carries pos and dir
RECURSIVE VerticalPass(_, _)
VerticalPass(ids, w) ==
    IF ids = {} THEN w
    ELSE LET e == Min(ids)
         IN  VerticalPass(ids \ {e},
                 [w EXCEPT !.pos[e] = VerticalStep(w.pos[e], w.dir),
                           !.dir = ClearJump(w.dir)])

\* a wrap that puts the tile one width short of the end of the band
ScrollXShortWrap(x, tag) ==
    LET nx == x - tag.velocity
    IN  IF nx < tag.width * (-1) THEN nx + tag.width * (tag.num_copies - 1) ELSE nx

\* lines 162-166: one background tile
ScrollX(x, tag) ==
    LET nx == x - tag.velocity
    IN  IF nx < tag.width * (-1) THEN nx + tag.width * tag.num_copies ELSE nx

\* lines 161-167: the loop over (pos, bg, !obs)
BackgroundPass(w) ==
    LET ids == (DOMAIN w.pos \cap DOMAIN w.bg) \ DOMAIN w.obs
    IN  [w EXCEPT !.pos =
            [e \in DOMAIN w.pos |->
                IF e \in ids
                THEN [w.pos[e] EXCEPT !.position.x = ScrollX(@, w.bg[e])]
                ELSE w.pos[e]]]

\* a draw from the closed range 0..3
DrawsInclusive == 0 .. 3

\* line 177: rng.gen_range(0, 3) draws from the half-open range
Draws == 0 .. 2

\* a match whose third arm puts the bottom half 60.0 higher
GapChoiceNarrow(choice) ==
    CASE choice = 0 -> [top_y |-> -2400, bottom_y |-> 2400, bottom_img |-> Images[1]]
      [] choice = 1 -> [top_y |-> -1200, bottom_y |-> 3600, bottom_img |-> Images[2]]
      [] choice = 2 -> [top_y |-> 0, bottom_y |-> 4200, bottom_img |-> Images[3]]
      [] OTHER -> [top_y |-> RETIRED_Y, bottom_y |-> RETIRED_Y,
                   bottom_img |-> Images[1]]

\* lines 181-202: the match on the draw
GapChoice(choice) ==
    CASE choice = 0 -> [top_y |-> -2400, bottom_y |-> 2400, bottom_img |-> Images[1]]
      [] choice = 1 -> [top_y |-> -1200, bottom_y |-> 3600, bottom_img |-> Images[2]]
      [] choice = 2 -> [top_y |-> 0, bottom_y |-> 4800, bottom_img |-> Images[3]]
      [] OTHER -> [top_y |-> RETIRED_Y, bottom_y |-> RETIRED_Y,
                   bottom_img |-> Images[1]]

\* lines 206-236 and 240-270: the five updater.insert calls for one new obstacle
ObstacleInserts(ent, y, img, top) ==
    << [ent |-> ent, comp |-> "Position",
        val |-> [position |-> Point2(SPAWN_X, y), speed |-> Point2(0, 0)]],
       [ent |-> ent, comp |-> "Image", val |-> img],
       [ent |-> ent, comp |-> "BackgroundTag",
        val |-> [velocity |-> OBSTACLE_VELOCITY, width |-> OBSTACLE_WIDTH,
                 num_copies |-> 1]],
       [ent |-> ent, comp |-> "ObstacleTag", val |-> [top |-> top]],
       [ent |-> ent, comp |-> "CollisionBox",
        val |-> [origin |-> Point2(SPAWN_X, y), height |-> OBSTACLE_HEIGHT,
                 width |-> OBSTACLE_WIDTH]] >>

\* lines 178-271: a retiring top obstacle takes the drawn y and queues the new pair
SpawnPair(w, e, choice) ==
    LET g == GapChoice(choice)
        top_obs == w.next_id
        bottom_obs == w.next_id + 1
    IN  [w EXCEPT !.pos[e].position.y = g.top_y,
                  !.entities = @ \cup {top_obs, bottom_obs},
                  !.next_id = @ + 2,
                  !.lazy = @ \o ObstacleInserts(top_obs, g.top_y, Images[4], TRUE)
                             \o ObstacleInserts(bottom_obs, g.bottom_y, g.bottom_img,
                                                FALSE)]

\* line 172 on the scrolled x
Retires(x, tag) == x - tag.velocity < tag.width * (-1)

\* an obstacle loop in which either half of a retiring pair queues a new pair
ObstacleStepBothSpawn(w, e, choice) ==
    IF Retires(w.pos[e].position.x, w.bg[e]) THEN
        SpawnPair([w EXCEPT !.pos[e].position = Point2(SPAWN_X, RETIRED_Y),
                            !.deleted = @ \cup {e}], e, choice)
    ELSE [w EXCEPT !.pos[e].position.x = @ - w.bg[e].velocity]

\* an obstacle loop that removes a retired obstacle's components at once
ObstacleStepEagerDelete(w, e, choice) ==
    IF Retires(w.pos[e].position.x, w.bg[e]) THEN
        LET moved == [w EXCEPT !.pos[e].position = Point2(SPAWN_X, RETIRED_Y),
                               !.deleted = @ \cup {e}]
            r == IF w.obs[e].top THEN SpawnPair(moved, e, choice) ELSE moved
        IN  [r EXCEPT !.pos = Restrict(@, DOMAIN @ \ {e}),
                      !.coll = Restrict(@, DOMAIN @ \ {e})]
    ELSE [w EXCEPT !.pos[e].position.x = @ - w.bg[e].velocity]

\* lines 170-272: the body of the obstacle loop for entity e
ObstacleStep(w, e, choice) ==
    IF Retires(w.pos[e].position.x, w.bg[e]) THEN
        LET moved == [w EXCEPT !.pos[e].position = Point2(SPAWN_X, RETIRED_Y),
                               !.deleted = @ \cup {e}]
        IN  IF w.obs[e].top THEN SpawnPair(moved, e, choice) ELSE moved
    ELSE [w EXCEPT !.pos[e].position.x = @ - w.bg[e].velocity]

\* the join of the obstacle loop: (entities, pos, bg, obs)
ObstacleJoin(w) ==
    w.entities \cap DOMAIN w.pos \cap DOMAIN w.bg \cap DOMAIN w.obs

\* the top obstacles that retire in this pass: the draw of each matters
RetiringTops(w) ==
    {e \in ObstacleJoin(w) :
        Retires(w.pos[e].position.x, w.bg[e]) /\ w.obs[e].top}

\* lines 169-273: the loop, in id order; ch gives each retiring top its draw
RECURSIVE ObstaclePass(_, _, _)
ObstaclePass(ids, w, ch) ==
    IF ids = {} THEN w
    ELSE LET e == Min(ids)
             choice == IF e \in DOMAIN ch THEN ch[e] ELSE 0
         IN  ObstaclePass(ids \ {e}, ObstacleStep(w, e, choice), ch)

\* a sync that skips the entities deleted in this pass
SyncPassLiveOnly(w) ==
    [w EXCEPT !.coll =
        [e \in DOMAIN w.coll |->
            IF e \in DOMAIN w.pos /\ e \notin w.deleted
            THEN [w.coll[e] EXCEPT !.origin = Point2(w.pos[e].position.x,
                                                      w.pos[e].position.y)]
            ELSE w.coll[e]]]

\* lines 275-279: every collision box takes its entity's position
SyncPass(w) ==
    [w EXCEPT !.coll =
        [e \in DOMAIN w.coll |->
            IF e \in DOMAIN w.pos
            THEN [w.coll[e] EXCEPT !.origin = Point2(w.pos[e].position.x,
                                                      w.pos[e].position.y)]
            ELSE w.coll[e]]]

\* lines 136-280
MovementRun(w, ch) ==
    LET w1 == VerticalPass(DOMAIN w.pos \cap DOMAIN w.anim, w)
        w2 == BackgroundPass(w1)
        w3 == ObstaclePass(ObstacleJoin(w2), w2, ch)
    IN  SyncPass(w3)

----------------------------------------------------------------------------
(* AnimationSystem::run *)

\* a frame step that wraps one invocation too late
NextFrameLate(a) ==
    IF a.current_frame + 1 > a.max
    THEN [a EXCEPT !.current_frame = 0]
    ELSE [a EXCEPT !.current_frame = @ + 1]

\* lines 291-294
NextFrame(a) ==
    IF a.current_frame + 1 >= a.max
    THEN [a EXCEPT !.current_frame = 0]
    ELSE [a EXCEPT !.current_frame = @ + 1]

\* lines 287-296
AnimationRun(w) == [w EXCEPT !.anim = [e \in DOMAIN w.anim |-> NextFrame(w.anim[e])]]

\* lines 352-354: the fixed-rate loop ran n times in this frame
RECURSIVE AnimationLoop(_, _)
AnimationLoop(w, n) == IF n = 0 THEN w ELSE AnimationLoop(AnimationRun(w), n - 1)

----------------------------------------------------------------------------
(* CollisionSystem::run *)

\* a test that counts boxes sharing an edge as overlapping
OverlapInclusive(a, b) ==
    /\ a.origin.x <= b.origin.x + b.width
    /\ a.origin.x + a.width >= b.origin.x
    /\ a.origin.y <= b.origin.y + b.height
    /\ a.origin.y + a.height >= b.origin.y

\* a test that forgets the first box's height
OverlapNoHeight(a, b) ==
    /\ a.origin.x < b.origin.x + b.width
    /\ a.origin.x + a.width > b.origin.x
    /\ a.origin.y < b.origin.y + b.height
    /\ a.origin.y > b.origin.y

\* lines 325-328
Overlap(a, b) ==
    /\ a.origin.x < b.origin.x + b.width
    /\ a.origin.x + a.width > b.origin.x
    /\ a.origin.y < b.origin.y + b.height
    /\ a.origin.y + a.height > b.origin.y

\* line 322: the join (coll_box, anim)
PlayerBoxes(w) == DOMAIN w.coll \cap DOMAIN w.anim

\* line 324: the join (pos, coll_box, !anim)
OtherBoxes(w) == (DOMAIN w.pos \cap DOMAIN w.coll) \ DOMAIN w.anim

\* lines 320-333
Collided(w) ==
    \E p \in PlayerBoxes(w) : \E o \in OtherBoxes(w) : Overlap(w.coll[p], w.coll[o])

\* lines 335-337
CollisionRun(g, w) == IF Collided(w) THEN [g EXCEPT !.playing = FALSE] ELSE g

----------------------------------------------------------------------------
(* World::maintain, line 359: the killed entities lose their components,   *)
(* then the queued inserts are applied to the entities that are alive.     *)

Put(f, e, v) == [x \in DOMAIN f \cup {e} |-> IF x = e THEN v ELSE f[x]]

ApplyInsert(w, ins) ==
    IF ins.ent \notin w.entities THEN w
    ELSE CASE ins.comp = "Position" -> [w EXCEPT !.pos = Put(@, ins.ent, ins.val)]
           [] ins.comp = "Image" -> [w EXCEPT !.image = Put(@, ins.ent, ins.val)]
           [] ins.comp = "BackgroundTag" -> [w EXCEPT !.bg = Put(@, ins.ent, ins.val)]
           [] ins.comp = "ObstacleTag" -> [w EXCEPT !.obs = Put(@, ins.ent, ins.val)]
           [] ins.comp = "CollisionBox" -> [w EXCEPT !.coll = Put(@, ins.ent, ins.val)]

RECURSIVE ApplyLazy(_, _)
ApplyLazy(w, q) == IF q = <<>> THEN w ELSE ApplyLazy(ApplyInsert(w, Head(q)), Tail(q))

DeleteComponents(w) ==
    [w EXCEPT !.entities = @ \ w.deleted,
              !.pos = Restrict(@, DOMAIN @ \ w.deleted),
              !.anim = Restrict(@, DOMAIN @ \ w.deleted),
              !.bg = Restrict(@, DOMAIN @ \ w.deleted),
              !.obs = Restrict(@, DOMAIN @ \ w.deleted),
              !.coll = Restrict(@, DOMAIN @ \ w.deleted),
              !.image = Restrict(@, DOMAIN @ \ w.deleted),
              !.deleted = {}]

Maintain(w) == [ApplyLazy(DeleteComponents(w), w.lazy) EXCEPT !.lazy = <<>>]

----------------------------------------------------------------------------
(* State::update, lines 342-362 *)

\* the World the collision pass of this frame reads: n animation passes,
\* then the movement pass with the draws ch
Moved(n, ch) == MovementRun(AnimationLoop(World, n), ch)

\* the World the frame commits
Committed(n, ch) == Maintain(Moved(n, ch))

\* one draw for each top obstacle that retires in the pass (the draw made for a
\* retiring bottom obstacle is not used)
DrawsOf(w) == [RetiringTops(w) -> Draws]

\* an update that counts the tick only if the round survives it
UpdateScoreLast(n, ch) ==
    IF ~game.playing THEN UNCHANGED vars
    ELSE \E m \in {Moved(n, ch)} : \E w \in {Maintain(m)} :
             \E g \in {CollisionRun(game, m)} :
                 /\ game' = IF g.playing THEN [g EXCEPT !.score = @ + 1] ELSE g
                 /\ dir' = w.dir
                 /\ entities' = w.entities
                 /\ pos' = w.pos
                 /\ anim' = w.anim
                 /\ bg' = w.bg
                 /\ obs' = w.obs
                 /\ coll' = w.coll
                 /\ image' = w.image
                 /\ next_id' = w.next_id
                 /\ UNCHANGED <<player_input, events>>

\* an update without the early return: the systems run after the round is over
UpdateUngated(n, ch) ==
    \E m \in {Moved(n, ch)} : \E w \in {Maintain(m)} :
        /\ game' = IF game.playing
                   THEN CollisionRun([game EXCEPT !.score = @ + 1], m)
                   ELSE game
        /\ dir' = w.dir
        /\ entities' = w.entities
        /\ pos' = w.pos
        /\ anim' = w.anim
        /\ bg' = w.bg
        /\ obs' = w.obs
        /\ coll' = w.coll
        /\ image' = w.image
        /\ next_id' = w.next_id
        /\ UNCHANGED <<player_input, events>>

\* an update that commits nothing of a tick whose collision pass ends the round
UpdateDropsFatalPass(n, ch) ==
    IF ~game.playing THEN UNCHANGED vars
    ELSE \E m \in {Moved(n, ch)} : \E w \in {IF Collided(m) THEN World ELSE Maintain(m)} :
             /\ game' = CollisionRun([game EXCEPT !.score = @ + 1], m)
             /\ dir' = w.dir
             /\ entities' = w.entities
             /\ pos' = w.pos
             /\ anim' = w.anim
             /\ bg' = w.bg
             /\ obs' = w.obs
             /\ coll' = w.coll
             /\ image' = w.image
             /\ next_id' = w.next_id
             /\ UNCHANGED <<player_input, events>>

\* lines 342-362: the early return, the score, the systems in order, the commit
Update(n, ch) ==
    IF ~game.playing THEN UNCHANGED vars
    ELSE \E m \in {Moved(n, ch)} : \E w \in {Maintain(m)} :
             /\ game' = CollisionRun([game EXCEPT !.score = @ + 1], m)
             /\ dir' = w.dir
             /\ entities' = w.entities
             /\ pos' = w.pos
             /\ anim' = w.anim
             /\ bg' = w.bg
             /\ obs' = w.obs
             /\ coll' = w.coll
             /\ image' = w.image
             /\ next_id' = w.next_id
             /\ UNCHANGED <<player_input, events>>

\* one frame: the passes n of the fixed-rate loop and the draws ch are its inputs;
\* score is an i32, MaxTicks keeps it far from the overflow
Tick ==
    /\ game.playing => game.score < MaxTicks
    /\ \E n \in 0 .. MaxAnimSteps : \E ch \in DrawsOf(World) :
           Update(n, ch)

----------------------------------------------------------------------------
(* The key handlers *)

\* a key event is delivered: the bound on events, and on when they come
Delivers ==
    /\ events < MaxEvents
    /\ game.playing => game.score \in InputFrom .. InputUntil

\* lines 421-432
KeyDownInput(pi, keycode, repeat) ==
    IF ~repeat /\ keycode = "Space"
    THEN [pi EXCEPT !.jump = TRUE, !.release = FALSE]
    ELSE pi

\* a handler in which a fresh Space press after the round is over starts a new Game
KeyDownRestart(keycode, repeat) ==
    /\ Delivers
    /\ player_input' = KeyDownInput(player_input, keycode, repeat)
    /\ dir' = player_input'
    /\ events' = events + 1
    /\ game' = IF ~game.playing /\ ~repeat /\ keycode = "Space" THEN NewGame ELSE game
    /\ UNCHANGED <<entities, pos, anim, bg, obs, coll, image, next_id>>

\* lines 414-436; event::quit (line 428) is a request to the host's event
\* loop and changes nothing of the state modelled here
KeyDown(keycode, repeat) ==
    /\ Delivers
    /\ player_input' = KeyDownInput(player_input, keycode, repeat)
    /\ dir' = player_input'
    /\ events' = events + 1
    /\ UNCHANGED <<game, entities, pos, anim, bg, obs, coll, image, next_id>>

\* lines 439-441
KeyUpInput(pi, keycode) ==
    IF keycode = "Space" THEN [pi EXCEPT !.release = TRUE] ELSE pi

\* lines 438-445
KeyUp(keycode) ==
    /\ Delivers
    /\ player_input' = KeyUpInput(player_input, keycode)
    /\ dir' = player_input'
    /\ events' = events + 1
    /\ UNCHANGED <<game, entities, pos, anim, bg, obs, coll, image, next_id>>

KeyDownEvent == \E keycode \in KeyCodes : \E repeat \in BOOLEAN : KeyDown(keycode, repeat)

KeyUpEvent == \E keycode \in KeyCodes : KeyUp(keycode)

Next == Tick \/ KeyDownEvent \/ KeyUpEvent

Spec == Init /\ [][Next]_vars

----------------------------------------------------------------------------
(* The collision pass on its own, over every pair of boxes of a bounded    *)
(* grid: a World of two entities, a player box (it has an Animation) and   *)
(* one other box.                                                          *)

\* the largest coordinate and the largest side of the boxes drawn
MaxCoord == 3
MaxSide == 2

Boxes ==
    [origin : [x : 0 .. MaxCoord, y : 0 .. MaxCoord], height : 1 .. MaxSide,
     width : 1 .. MaxSide]

InitBoxes ==
    /\ game = NewGame
    /\ player_input = NewDirection
    /\ dir = NewDirection
    /\ entities = {0, 1}
    /\ coll \in [{0, 1} -> Boxes]
    /\ pos = [e \in {0, 1} |-> [position |-> coll[e].origin, speed |-> Point2(0, 0)]]
    /\ anim = [e \in {0} |-> NewAnimation(PLAYER_FRAMES)]
    /\ bg = <<>>
    /\ obs = <<>>
    /\ image = <<>>
    /\ next_id = 2
    /\ events = 0

\* CollisionSystem::run on the World as it stands
CollisionPass ==
    /\ game' = CollisionRun(game, World)
    /\ UNCHANGED <<player_input, dir, entities, pos, anim, bg, obs, coll, image,
                   next_id, events>>

NextBoxes == CollisionPass

SpecBoxes == InitBoxes /\ [][NextBoxes]_vars

----------------------------------------------------------------------------
(* The background loop on its own, from the tiles main creates: the tiles'  *)
(* positions depend on nothing but the number of movement passes, and the   *)
(* three bands return to their first positions after 22800 passes, so this  *)
(* specification walks through every position the tiles can take in a round *)
(* of any length.                                                           *)

\* the background loop of one movement pass
ScrollPass ==
    /\ pos' = BackgroundPass(World).pos
    /\ UNCHANGED <<game, player_input, dir, entities, anim, bg, obs, coll, image,
                   next_id, events>>

NextBands == ScrollPass

SpecBands == Init /\ [][NextBands]_vars

----------------------------------------------------------------------------
(* A round without input: the host's event loop delivers no key event and   *)
(* keeps calling update, once per frame.                                    *)

NextQuiet == Tick

\* a tick changes the state exactly while the round is on (lines 343-348): this
\* is ENABLED <<Tick>>_vars, written as a state predicate
TickDue == game.playing /\ game.score < MaxTicks

\* the event loop keeps calling update: weak fairness of Tick, WF_vars(Tick),
\* with the enabling condition written out
FairTicks == []<>(~TickDue) \/ []<><<Tick>>_vars

SpecQuiet == Init /\ [][NextQuiet]_vars /\ FairTicks

----------------------------------------------------------------------------
(* The player and the obstacles of the committed World *)

Players == DOMAIN pos \cap DOMAIN anim

Tops == {e \in entities \cap DOMAIN obs : obs[e].top}

Bottoms == {e \in entities \cap DOMAIN obs : ~obs[e].top}

----------------------------------------------------------------------------
(* Properties *)

\* C1: a tick that starts with playing = TRUE leaves score one above what it
\* was, whatever its animation, movement and collision passes do, the tick
\* that detects the collision included.
C1_ScorePlusOne ==
    [][(game.playing /\ Tick) => game'.score = game.score + 1]_vars

\* the tick that detected the collision has been counted
C1_Witness == ~game.playing /\ game.score > 0

\* C2: from a state with playing = FALSE no step, a tick or a key event,
\* changes the score, a Position, a CollisionBox or the set of entities.
C2_FrozenAfterGameOver ==
    [][~game.playing =>
          /\ game'.score = game.score
          /\ pos' = pos
          /\ coll' = coll
          /\ entities' = entities]_vars

\* the round is over and a jump request stands in the World for the next tick
C2_Witness == ~game.playing /\ dir.jump /\ dir.release

\* C3: once playing is FALSE it is FALSE in every later state.
C3_GameOverIsTerminal == [][~game.playing => ~game'.playing]_vars

\* the round is over and every key event of the round has been delivered
C3_Witness == ~game.playing /\ events = MaxEvents /\ player_input.jump

\* C4: after any movement pass the player's vertical velocity lies within
\* [-10.0, 6.0].
C4_VelocityInRange ==
    \A e \in Players :
        /\ pos[e].speed.y >= -JUMP_LIMIT
        /\ pos[e].speed.y <= TERMINAL_SPEED

\* C5: after any movement pass the player's Position.y lies within [0.0, 460.0].
C5_HeightInRange ==
    \A e \in Players : pos[e].position.y >= 0 /\ pos[e].position.y <= 4600

\* the player has been stopped at the upper bound, which only a clamped jump
\* reaches from the start height
C5_Witness ==
    game.score > 0 /\ \E e \in Players : pos[e].position.y = 0 /\ pos[e].speed.y = 0

\* the strict axis-aligned test of C6, on two boxes
C6_StrictOverlap(a, b) ==
    /\ a.origin.x < b.origin.x + b.width
    /\ b.origin.x < a.origin.x + a.width
    /\ a.origin.y < b.origin.y + b.height
    /\ b.origin.y < a.origin.y + a.height

\* some player box overlaps the box of an entity with a Position, a
\* CollisionBox and no Animation, in the World w
C6_PlayerHits(w) ==
    \E p \in DOMAIN w.coll \cap DOMAIN w.anim :
        \E o \in (DOMAIN w.pos \cap DOMAIN w.coll) \ DOMAIN w.anim :
            C6_StrictOverlap(w.coll[p], w.coll[o])

\* C6: a step from a state with playing = TRUE ends with playing = FALSE exactly
\* when it is a tick whose movement pass and volume sync leave the player's
\* box overlapping another entity's box; no key event ends the round.
C6_GameOverIffOverlap ==
    [][game.playing =>
          (~game'.playing <=>
              \E n \in 0 .. MaxAnimSteps : \E ch \in DrawsOf(World) :
                  Update(n, ch) /\ C6_PlayerHits(Moved(n, ch)))]_vars

\* the round has ended with the player's box inside an obstacle's
C6_Witness ==
    /\ ~game.playing
    /\ \E p \in Players : \E o \in Tops \cup Bottoms :
           C6_StrictOverlap(coll[p], coll[o])

\* the obstacles that scroll past x < -tile_width in the tick that starts here
C7_Retiring ==
    {e \in Tops \cup Bottoms : pos[e].position.x - bg[e].velocity < -bg[e].width}

\* C7: in a tick the entities destroyed are exactly the obstacles that scroll
\* past x < -tile_width, and they go as pairs: each with its other half at the
\* same x; the tick that retires a pair creates exactly one top and one bottom
\* obstacle, both at x = 1024.0, and any other tick creates nothing; after the
\* commit there are three top and three bottom obstacles.
C7_PairAtomicRecycle ==
    [][game'.score = game.score + 1 =>
          LET gone == C7_Retiring
              new == entities' \ entities
          IN  /\ entities \ entities' = gone
              /\ \A e \in gone : \E f \in gone :
                     /\ obs[f].top # obs[e].top
                     /\ pos[f].position.x = pos[e].position.x
              /\ new \subseteq DOMAIN obs' \cap DOMAIN pos'
              /\ \A e \in new : pos'[e].position.x = SPAWN_X
              /\ Cardinality({e \in new : obs'[e].top}) = (IF gone = {} THEN 0 ELSE 1)
              /\ Cardinality({e \in new : ~obs'[e].top}) = (IF gone = {} THEN 0 ELSE 1)
              /\ Cardinality(Tops') = 3
              /\ Cardinality(Bottoms') = 3]_vars

\* a pair has been retired and its replacement committed
C7_Witness ==
    /\ BottomIds \cap entities # BottomIds
    /\ \E t \in Tops : \E b \in Bottoms : t > BirdId /\ b > BirdId

\* every entity of w with a Position and a CollisionBox has its box at its position
C8_Synced(w) ==
    \A e \in DOMAIN w.pos \cap DOMAIN w.coll :
        /\ w.coll[e].origin.x = w.pos[e].position.x
        /\ w.coll[e].origin.y = w.pos[e].position.y

\* C8: in every committed state, and in the World the collision pass of the
\* next tick reads (whatever the number of animation passes and the draws),
\* every CollisionBox origin equals its entity's Position.
C8_OriginsFollowPositions ==
    /\ C8_Synced(World)
    /\ game.playing =>
           \A n \in 0 .. MaxAnimSteps : \A ch \in DrawsOf(World) :
               C8_Synced(Moved(n, ch))

\* a replacement obstacle has been committed and scrolled, in a round still on
C8_Witness ==
    /\ game.playing
    /\ \E e \in DOMAIN coll \cap DOMAIN pos :
           e > BirdId /\ pos[e].position.x < SPAWN_X

\* the scrolling tiles that are no obstacles
C10_Tiles == (DOMAIN pos \cap DOMAIN bg) \ DOMAIN obs

\* two tiles of one band keep their distance modulo the band's length
C10_Spacing ==
    \A e \in C10_Tiles : \A f \in C10_Tiles :
        bg[e] = bg[f] =>
            (pos[e].position.x - pos[f].position.x) % (bg[e].width * bg[e].num_copies)
              = (InitPos[e].position.x - InitPos[f].position.x)
                    % (bg[e].width * bg[e].num_copies)

\* C10: a tick moves every scrolling tile that is no obstacle from x to x - V,
\* plus W * C when x - V < -W; and two tiles of one band (same W, C, V) are as
\* far apart modulo W * C after the tick as at round start.
C10_ScrollLaw ==
    [][game'.score = game.score + 1 =>
          /\ \A e \in C10_Tiles :
                 pos'[e].position.x =
                     IF pos[e].position.x - bg[e].velocity < -bg[e].width
                     THEN pos[e].position.x - bg[e].velocity
                              + bg[e].width * bg[e].num_copies
                     ELSE pos[e].position.x - bg[e].velocity
          /\ C10_Spacing']_vars

\* a floor tile and a tile of the second background level have wrapped
C10_Witness ==
    /\ pos[6].position.x > InitPos[6].position.x
    /\ pos[3].position.x > InitPos[3].position.x

\* the two boxes share an edge line: one ends where the other begins
C9_EdgeTouch(a, b) ==
    \/ a.origin.x + a.width = b.origin.x
    \/ b.origin.x + b.width = a.origin.x
    \/ a.origin.y + a.height = b.origin.y
    \/ b.origin.y + b.height = a.origin.y

\* C9: for every two boxes of the grid the overlap test gives the same answer
\* with the boxes exchanged, and boxes that touch at an edge are reported as
\* not overlapping and leave the round on when the collision pass has run.
C9_SymmetricEdgeExclusive ==
    /\ Overlap(coll[0], coll[1]) = Overlap(coll[1], coll[0])
    /\ C9_EdgeTouch(coll[0], coll[1]) =>
           /\ ~Overlap(coll[0], coll[1])
           /\ ~Overlap(coll[1], coll[0])
           /\ game.playing

\* the player's right edge is the other box's left edge, their heights overlap
C9_Witness ==
    /\ coll[0].origin.x + coll[0].width = coll[1].origin.x
    /\ coll[0].origin.y < coll[1].origin.y + coll[1].height
    /\ coll[1].origin.y < coll[0].origin.y + coll[0].height
    /\ game.playing

----------------------------------------------------------------------------
\* the animations after k passes of the animation system, every one started
\* at frame 0
C11_FromZero(k) ==
    AnimationLoop([World EXCEPT !.anim =
        [e \in DOMAIN anim |-> [anim[e] EXCEPT !.current_frame = 0]]], k).anim

\* C11: every animation's frame index is below its frame count, one pass of
\* the animation system takes the index to (index + 1) mod frame count, and
\* from frame 0 the index is back at 0 after frame-count passes and not sooner.
C11_FrameCycle ==
    \A e \in DOMAIN anim :
        /\ anim[e].current_frame \in 0 .. anim[e].max - 1
        /\ AnimationRun(World).anim[e].current_frame =
               (anim[e].current_frame + 1) % anim[e].max
        /\ C11_FromZero(anim[e].max)[e].current_frame = 0
        /\ \A k \in 1 .. anim[e].max - 1 : C11_FromZero(k)[e].current_frame # 0

\* the player's animation shows its last frame: the next pass wraps it
C11_Witness ==
    /\ game.playing
    /\ anim[BirdId].current_frame = anim[BirdId].max - 1

----------------------------------------------------------------------------
\* C12: a jump request that a movement pass has cleared stays cleared until
\* the next fresh press: the only step that takes the World's jump request
\* from false to true is a key-down of Space that is not a repeat.
C12_OneImpulsePerPress ==
    [][(~dir.jump /\ dir'.jump) => KeyDown("Space", FALSE)]_vars

----------------------------------------------------------------------------
----------------------------------------------------------------------------
\* the speed a pass without a jump integrates with
C14_Gravity(vy) == IF vy < TERMINAL_SPEED THEN vy + GRAVITY ELSE vy

\* a height brought into [0.0, 460.0]
C14_ClampY(y) == IF y < 0 THEN 0 ELSE IF y > MAX_Y THEN MAX_Y ELSE y

\* the two worked cases: y=200, vy=0 gives y=200.3, vy=0.3, and y=5, vy=-6.0
\* gives y=0, vy=0.0, for every Direction that does not trigger a jump
C14_Examples ==
    \A d \in [jump : BOOLEAN, release : BOOLEAN] :
        ~(d.jump /\ d.release) =>
            /\ VerticalStep([position |-> Point2(1000, 2000), speed |-> Point2(0, 0)], d)
                   = [position |-> Point2(1000, 2003), speed |-> Point2(0, 3)]
            /\ VerticalStep([position |-> Point2(1000, 50), speed |-> Point2(0, -60)], d)
                   = [position |-> Point2(1000, 0), speed |-> Point2(0, 0)]

\* C14: a tick whose movement pass triggers no jump integrates the player with
\* vy + 0.3 if vy < 6.0 and with vy otherwise; the new y is y plus that speed
\* clamped into [0.0, 460.0], and the speed kept is that speed, or 0.0 when the
\* clamp acted (the second worked case).
C14_NoJumpStep ==
    [][/\ C14_Examples
       /\ (game.playing /\ game'.score = game.score + 1 /\ ~(dir.jump /\ dir.release)) =>
              \A p \in Players :
                  LET v == C14_Gravity(pos[p].speed.y)
                      y == pos[p].position.y + v
                  IN  /\ pos'[p].position.y = C14_ClampY(y)
                      /\ pos'[p].speed.y = IF y = C14_ClampY(y) THEN v ELSE 0]_vars

\* a fall without any jump request has reached the terminal speed
C14_Witness ==
    /\ ~player_input.jump
    /\ pos[BirdId].speed.y >= TERMINAL_SPEED

----------------------------------------------------------------------------
\* a tick whose movement pass takes the jump branch: the impulse is applied
\* when the speed before the pass is above -10.0 (or, if inclusive, at -10.0),
\* no gravity is added, the step integrates and clamps with the resulting
\* speed, and the request is cleared
C15_JumpStep(inclusive) ==
    (game.playing /\ game'.score = game.score + 1 /\ dir.jump /\ dir.release) =>
        /\ ~dir'.jump
        /\ \A p \in Players :
               LET vy == pos[p].speed.y
                   applies == IF inclusive THEN vy >= -JUMP_LIMIT ELSE vy > -JUMP_LIMIT
                   v == IF applies THEN vy - JUMP_IMPULSE ELSE vy
                   y == pos[p].position.y + v
               IN  /\ pos'[p].position.y = C14_ClampY(y)
                   /\ pos'[p].speed.y = IF y = C14_ClampY(y) THEN v ELSE 0

\* C15 as stated: in a pass with jump_requested and jump_key_released both
\* true the -10.0 impulse is applied if and only if vy >= -10.0, exactly -10.0
\* included; no gravity is added and jump_requested is false afterwards.
C15_ImpulseFromMinusTen ==
    [][C15_JumpStep(TRUE)]_vars

\* C15 amended: in a pass with jump_requested and jump_key_released both true
\* the -10.0 impulse is applied if and only if vy > -10.0 (at exactly -10.0 it
\* is not applied); no gravity is added and jump_requested is false afterwards.
C15_ImpulseAboveMinusTen ==
    [][C15_JumpStep(FALSE)]_vars

\* a second jump pass, one tick after a jump from rest on the floor, found the
\* speed at exactly -10.0 and left it there
C15_Witness ==
    /\ ~dir.jump
    /\ pos[BirdId].speed.y = -JUMP_LIMIT
    /\ pos[BirdId].position.y = MAX_Y - 2 * JUMP_LIMIT

----------------------------------------------------------------------------
\* the bottom obstacles at the x of the top obstacle t
C16_Partners(t) == {b \in Bottoms : pos[b].position.x = pos[t].position.x}

\* C16: in every committed state every top obstacle has exactly one bottom
\* obstacle at its x, both collision boxes are 240.0 high and 64.0 wide, and
\* the bottom half's y is the top half's y plus 480.0, which leaves a gap of
\* 240.0 between the top half's lower edge and the bottom half's upper edge.
C16_PairGeometry ==
    \A t \in Tops :
        /\ Cardinality(C16_Partners(t)) = 1
        /\ \A b \in C16_Partners(t) :
               /\ coll[t].height = 2400 /\ coll[t].width = 640
               /\ coll[b].height = 2400 /\ coll[b].width = 640
               /\ pos[b].position.y - pos[t].position.y = 4800
               /\ pos[b].position.y - (pos[t].position.y + coll[t].height) = 2400

\* a recycled pair whose draw was 2 is live: top half at y = 0.0
C16_Witness ==
    \E t \in Tops : t > BirdId /\ pos[t].position.y = 0

----------------------------------------------------------------------------
\* the obstacles that the tick starting here retires
C17_Retiring ==
    {e \in Tops \cup Bottoms : pos[e].position.x - 40 < -640}

\* what the claim says of one tick: m is the World its collision pass reads,
\* w the World it commits
C17_Tick(m, w) ==
    /\ \A e \in C17_Retiring :
           /\ e \in m.entities /\ e \in DOMAIN m.pos /\ e \in DOMAIN m.coll
           /\ m.pos[e].position.x = 10240
           /\ m.coll[e].origin = m.pos[e].position
           /\ \A p \in DOMAIN m.anim : ~C6_StrictOverlap(m.coll[p], m.coll[e])
           /\ e \notin w.entities
           /\ e \notin DOMAIN w.pos \cup DOMAIN w.coll \cup DOMAIN w.obs
    /\ C17_Retiring # {} => w.entities \ entities # {}
    /\ \A e \in w.entities \ entities :
           /\ e \notin DOMAIN m.pos \cup DOMAIN m.coll
           /\ w.pos[e].position.x = 10240
           /\ w.coll[e].origin.x = 10240
    /\ \A e \in Tops \cup Bottoms :
           pos[e].position.x = 10240 => m.pos[e].position.x = 10200
    /\ \A e \in 0 .. next_id - 1 : e \notin entities => e \notin w.entities

\* C17: the creations and destructions of a movement pass take effect at the
\* commit that ends the tick. In the tick that retires an obstacle the obstacle
\* is still there, at its relocated position, when the collision pass runs, it
\* overlaps no player box, and the committed World no longer has it, nor any
\* later one; the replacement pair has no position and no box before the
\* commit, is committed at x = 1024.0, and the following tick scrolls it to
\* 1020.0.
C17_DeferredCommit ==
    game.playing =>
        \A n \in 0 .. MaxAnimSteps : \A ch \in DrawsOf(World) :
            \A m \in {Moved(n, ch)} : \A w \in {Maintain(m)} : C17_Tick(m, w)

\* the commit after the first retiring tick: the first pair is gone and its
\* replacement waits at x = 1024.0 for its first scroll
C17_Witness ==
    /\ game.playing
    /\ Min(TopIds) \notin entities
    /\ \E t \in Tops : \E b \in Bottoms :
           /\ pos[t].position.x = SPAWN_X
           /\ pos[b].position.x = SPAWN_X

----------------------------------------------------------------------------
\* the movement passes applied to tile e since the start of the round, read off
\* its position: a pass moves it left by its velocity, a wrap moves it right by
\* the length of its band
C18_Passes(e, k) ==
    (InitPos[e].position.x - k * bg[e].velocity - pos[e].position.x)
        % (bg[e].width * bg[e].num_copies) = 0

\* C18: when the round is over the score is the number of ticks executed, the
\* fatal one included, and the fatal tick's movement pass has been applied:
\* every background and floor tile is where score-many passes put it, and the
\* first tile of the far background, which moves 2.0 a pass and does not wrap
\* in the first 380 ticks, is at -2.0 * score.
C18_FinalScoreCountsFatalTick ==
    ~game.playing =>
        /\ pos[0].position.x = -20 * game.score
        /\ \A e \in BgIds \cup FloorIds : C18_Passes(e, game.score)

\* a round that a jump carried past tick 186, ended by a later collision
C18_Witness ==
    /\ ~game.playing
    /\ game.score > 186
    /\ events > 0

----------------------------------------------------------------------------
\* the bands of tiles: the two background layers and the floor
C19_Bands ==
    {{e \in BgIds : BgLevel(e) = BgLevel(f)} : f \in BgIds} \cup {FloorIds}

\* the intervals [x, x + width] of the band's tiles cover [0, 1024]: a tile
\* lies over 0, and a tile that ends inside the window has another tile over
\* its end that reaches further right
C19_Covers(band) ==
    /\ \E e \in band :
           pos[e].position.x <= 0 /\ 0 <= pos[e].position.x + bg[e].width
    /\ \A e \in band :
           LET r == pos[e].position.x + bg[e].width
           IN  (0 <= r /\ r < 10240) =>
                   \E f \in band :
                       pos[f].position.x <= r /\ r < pos[f].position.x + bg[f].width

\* C19: in every reachable state each band, the two background layers (three
\* tiles 760.0 wide) and the floor (five tiles 320.0 wide), covers the visible
\* width [0, 1024] without a gap.
C19_SeamlessBands ==
    \A band \in C19_Bands :
        /\ band \subseteq DOMAIN pos \cap DOMAIN bg
        /\ \A e \in band :
               <<bg[e].width, Cardinality(band)>> =
                   IF e \in FloorIds THEN <<3200, 5>> ELSE <<7600, 3>>
        /\ C19_Covers(band)

\* a tile of each band has wrapped: the far layer's first wrap is at pass 381
C19_Witness ==
    /\ pos[0].position.x > InitPos[0].position.x
    /\ pos[3].position.x > InitPos[3].position.x
    /\ pos[7].position.x > InitPos[7].position.x

----------------------------------------------------------------------------
\* C20: in every committed state every top obstacle has y in {-240.0, -120.0,
\* 0.0} and every bottom obstacle y in {240.0, 360.0, 480.0}; no live obstacle
\* is at the fallback y = 600.0.
C20_NoFallbackGap ==
    /\ \A t \in Tops : pos[t].position.y \in {-2400, -1200, 0}
    /\ \A b \in Bottoms : pos[b].position.y \in {2400, 3600, 4800}
    /\ \A e \in Tops \cup Bottoms :
           pos[e].position.y # 6000 /\ coll[e].origin.y # 6000

\* a recycled pair whose draw was 0 is live: bottom half at y = 240.0
C20_Witness ==
    \E b \in Bottoms : b > BirdId /\ pos[b].position.y = 2400

----------------------------------------------------------------------------
\* the round is over with the player on the floor, y = 460.0, inside the box
\* of the first bottom obstacle
C21_HitOnFloor ==
    /\ ~game.playing
    /\ pos[BirdId].position.y = 4600
    /\ C6_StrictOverlap(coll[BirdId], coll[Min(BottomIds)])

\* C21: a round in which no key event occurs and ticks keep being executed
\* ends: playing = false is eventually reached, with the player fallen to
\* y = 460.0 and hit by the first bottom obstacle.
C21_QuietRoundEnds == <>C21_HitOnFloor

\* the end of the round without input: no event was delivered, the player lies
\* on the floor and the first bottom obstacle has reached it
C21_Witness ==
    /\ ~game.playing
    /\ events = 0
    /\ ~player_input.jump
    /\ pos[BirdId].position.y = MAX_Y
    /\ coll[Min(BottomIds)].origin.x < coll[BirdId].origin.x + coll[BirdId].width

====
